---- MODULE Spec2Model ----
(***************************************************************************)
(* A model of repo-context-generator.py (RepoContextGenerator and main).   *)
(*                                                                         *)
(* Text is modelled at two grains.  Path strings are sequences of          *)
(* one-character strings, so that Python's substring test `s in str(p)`    *)
(* is a real substring search.  File contents are sequences of bytes over  *)
(* a three-letter alphabet: "a" (any ASCII letter), "nl" (0x0A) and "bad"  *)
(* (a byte that is not valid UTF-8).                                       *)
(***************************************************************************)
EXTENDS Integers, Sequences, FiniteSets, TLC

VARIABLES
    max_file_size,    \* self.max_file_size
    max_total_size,   \* self.max_total_size
    repo,             \* the relative paths of the files under repo_path
    denied,           \* the files of repo whose read raises (permissions)
    root,             \* what the repository path is: "dir", "missing" or "file"
    git,              \* what get_git_info finds: "ok" or "error"
    output_file,      \* self.output_file, as a relative path
    pc,               \* where main / generate_context stands
    constructed,      \* a RepoContextGenerator has been constructed
    generated,        \* generate_context has been called
    total_size,       \* self.total_size
    context_parts,    \* self.context_parts
    project_types,    \* project_types of generate_context
    idx,              \* the index of the running pattern loop
    cands,            \* the files the running loop has still to add
    att,              \* the last _add_file_content call
    reached,          \* the categories whose checkpoint a check found exceeded
    written,          \* the artifact the tool wrote last
    first,            \* the artifact written by the run before
    ld                \* the get_file_content call of the loader specification

vars == <<max_file_size, max_total_size, repo, denied, root, git, output_file,
          pc, constructed, generated, total_size, context_parts,
          project_types, idx, cands, att, reached, written, first, ld>>

----------------------------------------------------------------------------
(* Bounds of the model                                                     *)

\* longest file content, in bytes, of the loader specification
MaxBytes == 4

----------------------------------------------------------------------------
(* Strings                                                                 *)

RECURSIVE Flatten(_, _)
\* sep.join(parts) for sequences of characters
Flatten(parts, sep) ==
    IF parts = <<>> THEN <<>>
    ELSE IF Len(parts) = 1 THEN parts[1]
    ELSE parts[1] \o sep \o Flatten(Tail(parts), sep)

\* Python's `needle in hay` on strings
Contains(hay, needle) ==
    \E i \in 0..(Len(hay) - Len(needle)) :
        \A j \in 1..Len(needle) : hay[i + j] = needle[j]

\* all sequences over S of length at most n
BoundedSeq(S, n) == UNION { [1..k -> S] : k \in 0..n }

\* the number of characters of format(n, ",") for n >= 0
CommaLen(n) ==
    LET digits == IF n < 10 THEN 1 ELSE IF n < 100 THEN 2 ELSE IF n < 1000 THEN 3
                  ELSE IF n < 10000 THEN 4 ELSE IF n < 100000 THEN 5 ELSE 6
    IN  digits + ((digits - 1) \div 3)

\* the number of characters of str(n) for n >= 0
DigitLen(n) ==
    IF n < 10 THEN 1 ELSE IF n < 100 THEN 2 ELSE IF n < 1000 THEN 3
    ELSE IF n < 10000 THEN 4 ELSE IF n < 100000 THEN 5 ELSE 6

----------------------------------------------------------------------------
(* Paths                                                                   *)

\* self.repo_path, as the components below "/"
repo_path == << <<"r">> >>

\* str(repo_path / rel): the components joined by "/" after a leading "/"
PathStr(rel) == <<"/">> \o Flatten(repo_path \o rel, <<"/">>)

\* the directories get_file_content refuses (line 156)
LoaderSkip ==
    { <<".","t","e","r","r","a","g","r","u","n","t","-","c","a","c","h","e">>,
      <<".","t","e","r","r","a","f","o","r","m">> }

----------------------------------------------------------------------------
(* The program's tables                                                    *)

\* self.project_indicators (lines 39-54), in dict order
project_indicators ==
    << [type |-> "python",
        patterns |-> << << <<"r","e","q","u","i","r","e","m","e","n","t","s",".","t","x","t">> >>,
                        << <<"s","e","t","u","p",".","p","y">> >>,
                        << <<"p","y","p","r","o","j","e","c","t",".","t","o","m","l">> >>,
                        << <<"P","i","p","f","i","l","e">> >>,
                        << <<"p","o","e","t","r","y",".","l","o","c","k">> >> >>],
       [type |-> "javascript",
        patterns |-> << << <<"p","a","c","k","a","g","e",".","j","s","o","n">> >>,
                        << <<"y","a","r","n",".","l","o","c","k">> >>,
                        << <<"p","a","c","k","a","g","e","-","l","o","c","k",".","j","s","o","n">> >> >>],
       [type |-> "typescript",
        patterns |-> << << <<"t","s","c","o","n","f","i","g",".","j","s","o","n">> >>,
                        << <<"p","a","c","k","a","g","e",".","j","s","o","n">> >> >>],
       [type |-> "java",
        patterns |-> << << <<"p","o","m",".","x","m","l">> >>,
                        << <<"b","u","i","l","d",".","g","r","a","d","l","e">> >>,
                        << <<"b","u","i","l","d",".","g","r","a","d","l","e",".","k","t","s">> >>,
                        << <<"s","e","t","t","i","n","g","s",".","g","r","a","d","l","e">> >> >>],
       [type |-> "go",
        patterns |-> << << <<"g","o",".","m","o","d">> >>,
                        << <<"g","o",".","s","u","m">> >> >>],
       [type |-> "rust",
        patterns |-> << << <<"C","a","r","g","o",".","t","o","m","l">> >>,
                        << <<"C","a","r","g","o",".","l","o","c","k">> >> >>],
       [type |-> "ruby",
        patterns |-> << << <<"G","e","m","f","i","l","e">> >>,
                        << <<"G","e","m","f","i","l","e",".","l","o","c","k">> >>,
                        << <<".","r","u","b","y","-","v","e","r","s","i","o","n">> >> >>],
       [type |-> "php",
        patterns |-> << << <<"c","o","m","p","o","s","e","r",".","j","s","o","n">> >>,
                        << <<"c","o","m","p","o","s","e","r",".","l","o","c","k">> >> >>],
       [type |-> "csharp",
        patterns |-> << << <<"*",".","c","s","p","r","o","j">> >>,
                        << <<"*",".","s","l","n">> >>,
                        << <<"p","a","c","k","a","g","e","s",".","c","o","n","f","i","g">> >> >>],
       [type |-> "terraform",
        patterns |-> << << <<"*",".","t","f">> >>,
                        << <<"t","e","r","r","a","g","r","u","n","t",".","h","c","l">> >>,
                        << <<"*",".","t","f","v","a","r","s">> >>,
                        << <<"v","e","r","s","i","o","n","s",".","t","f">> >> >>],
       [type |-> "kubernetes",
        patterns |-> << << <<"k","8","s">>, <<"*",".","y","a","m","l">> >>,
                        << <<"k","8","s">>, <<"*",".","y","m","l">> >>,
                        << <<"k","u","b","e","r","n","e","t","e","s">>, <<"*",".","y","a","m","l">> >>,
                        << <<"h","e","l","m","f","i","l","e",".","y","a","m","l">> >> >>],
       [type |-> "docker",
        patterns |-> << << <<"D","o","c","k","e","r","f","i","l","e">> >>,
                        << <<"d","o","c","k","e","r","-","c","o","m","p","o","s","e",".","y","m","l">> >>,
                        << <<"d","o","c","k","e","r","-","c","o","m","p","o","s","e",".","y","a","m","l">> >>,
                        << <<"C","o","n","t","a","i","n","e","r","f","i","l","e">> >> >>],
       [type |-> "ansible",
        patterns |-> << << <<"a","n","s","i","b","l","e",".","c","f","g">> >>,
                        << <<"p","l","a","y","b","o","o","k",".","y","m","l">> >>,
                        << <<"r","e","q","u","i","r","e","m","e","n","t","s",".","y","m","l">> >>,
                        << <<"i","n","v","e","n","t","o","r","y">> >> >>] >>

\* self.important_files (lines 57-69)
important_files ==
    << << <<"R","E","A","D","M","E",".","m","d">> >>,
       << <<"R","E","A","D","M","E",".","r","s","t">> >>,
       << <<"R","E","A","D","M","E",".","t","x","t">> >>,
       << <<"R","E","A","D","M","E">> >>,
       << <<"S","T","A","T","U","S",".","m","d">> >>,
       << <<"T","O","D","O",".","m","d">> >>,
       << <<"R","O","A","D","M","A","P",".","m","d">> >>,
       << <<"L","I","C","E","N","S","E">> >>,
       << <<"L","I","C","E","N","S","E",".","m","d">> >>,
       << <<"L","I","C","E","N","S","E",".","t","x","t">> >>,
       << <<"C","O","N","T","R","I","B","U","T","I","N","G",".","m","d">> >>,
       << <<"C","H","A","N","G","E","L","O","G",".","m","d">> >>,
       << <<"C","H","A","N","G","E","L","O","G">> >>,
       << <<".","e","n","v",".","e","x","a","m","p","l","e">> >>,
       << <<".","e","n","v",".","s","a","m","p","l","e">> >>,
       << <<".","e","n","v",".","t","e","m","p","l","a","t","e">> >>,
       << <<"M","a","k","e","f","i","l","e">> >>,
       << <<"m","a","k","e","f","i","l","e">> >>,
       << <<"G","N","U","m","a","k","e","f","i","l","e">> >>,
       << <<"t","e","r","r","a","g","r","u","n","t",".","h","c","l">> >>,
       << <<"c","o","m","m","o","n",".","h","c","l">> >>,
       << <<"a","c","c","o","u","n","t",".","h","c","l">> >>,
       << <<"b","a","c","k","e","n","d",".","h","c","l">> >>,
       << <<"v","e","r","s","i","o","n","s",".","t","f">> >>,
       << <<"m","a","i","n",".","t","f">> >>,
       << <<"v","a","r","i","a","b","l","e","s",".","t","f">> >>,
       << <<"o","u","t","p","u","t","s",".","t","f">> >>,
       << <<"p","r","o","v","i","d","e","r","s",".","t","f">> >>,
       << <<".","g","i","t","h","u","b">>, <<"w","o","r","k","f","l","o","w","s">>, <<"*",".","y","m","l">> >>,
       << <<".","g","i","t","h","u","b">>, <<"w","o","r","k","f","l","o","w","s">>, <<"*",".","y","a","m","l">> >>,
       << <<".","g","i","t","l","a","b","-","c","i",".","y","m","l">> >>,
       << <<"a","z","u","r","e","-","p","i","p","e","l","i","n","e","s",".","y","m","l">> >>,
       << <<".","c","i","r","c","l","e","c","i">>, <<"c","o","n","f","i","g",".","y","m","l">> >>,
       << <<"J","e","n","k","i","n","s","f","i","l","e">> >>,
       << <<"b","i","t","b","u","c","k","e","t","-","p","i","p","e","l","i","n","e","s",".","y","m","l">> >> >>

\* the patterns of find_entry_points (lines 286-303)
entry_patterns ==
    << [lang |-> <<"P","y","t","h","o","n">>,
        files |-> << << <<"m","a","i","n",".","p","y">> >>,
                    << <<"a","p","p",".","p","y">> >>,
                    << <<"r","u","n",".","p","y">> >>,
                    << <<"m","a","n","a","g","e",".","p","y">> >>,
                    << <<"_","_","m","a","i","n","_","_",".","p","y">> >>,
                    << <<"c","l","i",".","p","y">> >>,
                    << <<"w","s","g","i",".","p","y">> >> >>],
       [lang |-> <<"J","a","v","a","S","c","r","i","p","t">>,
        files |-> << << <<"i","n","d","e","x",".","j","s">> >>,
                    << <<"a","p","p",".","j","s">> >>,
                    << <<"s","e","r","v","e","r",".","j","s">> >>,
                    << <<"m","a","i","n",".","j","s">> >>,
                    << <<"i","n","d","e","x",".","t","s">> >>,
                    << <<"s","e","r","v","e","r",".","t","s">> >> >>],
       [lang |-> <<"J","a","v","a">>,
        files |-> << << <<"*","*">>, <<"M","a","i","n",".","j","a","v","a">> >>,
                    << <<"*","*">>, <<"A","p","p","l","i","c","a","t","i","o","n",".","j","a","v","a">> >>,
                    << <<"s","r","c">>, <<"m","a","i","n">>, <<"j","a","v","a">>, <<"*","*">>, <<"*","A","p","p","l","i","c","a","t","i","o","n",".","j","a","v","a">> >> >>],
       [lang |-> <<"G","o">>,
        files |-> << << <<"m","a","i","n",".","g","o">> >>,
                    << <<"c","m","d">>, <<"*">>, <<"m","a","i","n",".","g","o">> >> >>],
       [lang |-> <<"R","u","s","t">>,
        files |-> << << <<"s","r","c">>, <<"m","a","i","n",".","r","s">> >>,
                    << <<"m","a","i","n",".","r","s">> >> >>],
       [lang |-> <<"C","#">>,
        files |-> << << <<"P","r","o","g","r","a","m",".","c","s">> >>,
                    << <<"*","*">>, <<"P","r","o","g","r","a","m",".","c","s">> >> >>],
       [lang |-> <<"P","H","P">>,
        files |-> << << <<"i","n","d","e","x",".","p","h","p">> >>,
                    << <<"a","p","p",".","p","h","p">> >> >>],
       [lang |-> <<"R","u","b","y">>,
        files |-> << << <<"a","p","p",".","r","b">> >>,
                    << <<"a","p","p","l","i","c","a","t","i","o","n",".","r","b">> >>,
                    << <<"c","o","n","f","i","g",".","r","u">> >> >>] >>

\* config_patterns of _find_config_files (lines 534-540)
config_patterns ==
    << << <<"*",".","c","o","n","f","i","g">> >>,
       << <<"*",".","c","o","n","f">> >>,
       << <<"c","o","n","f","i","g",".","*">> >>,
       << <<"s","e","t","t","i","n","g","s",".","*">> >>,
       << <<".","e","s","l","i","n","t","r","c","*">> >>,
       << <<".","p","r","e","t","t","i","e","r","r","c","*">> >>,
       << <<"t","s","c","o","n","f","i","g",".","j","s","o","n">> >>,
       << <<"w","e","b","p","a","c","k",".","c","o","n","f","i","g",".","j","s">> >>,
       << <<"b","a","b","e","l",".","c","o","n","f","i","g",".","j","s">> >>,
       << <<"j","e","s","t",".","c","o","n","f","i","g",".","j","s">> >>,
       << <<".","f","l","a","k","e","8">> >>,
       << <<"s","e","t","u","p",".","c","f","g">> >>,
       << <<"t","o","x",".","i","n","i">> >>,
       << <<"p","y","t","e","s","t",".","i","n","i">> >>,
       << <<"s","e","r","v","e","r","l","e","s","s",".","y","m","l">> >>,
       << <<"s","e","r","v","e","r","l","e","s","s",".","y","a","m","l">> >>,
       << <<"s","a","m",".","y","a","m","l">> >>,
       << <<"s","a","m",".","y","m","l">> >> >>

\* source_patterns of _add_source_samples (lines 556-566)
source_patterns ==
    << [type |-> "python", patterns |-> << << <<"*","*">>, <<"*",".","p","y">> >> >>],
       [type |-> "javascript", patterns |-> << << <<"*","*">>, <<"*",".","j","s">> >>, << <<"*","*">>, <<"*",".","j","s","x">> >> >>],
       [type |-> "typescript", patterns |-> << << <<"*","*">>, <<"*",".","t","s">> >>, << <<"*","*">>, <<"*",".","t","s","x">> >> >>],
       [type |-> "java", patterns |-> << << <<"*","*">>, <<"*",".","j","a","v","a">> >> >>],
       [type |-> "go", patterns |-> << << <<"*","*">>, <<"*",".","g","o">> >> >>],
       [type |-> "rust", patterns |-> << << <<"*","*">>, <<"*",".","r","s">> >> >>],
       [type |-> "csharp", patterns |-> << << <<"*","*">>, <<"*",".","c","s">> >> >>],
       [type |-> "terraform", patterns |-> << << <<"*","*">>, <<"*",".","t","f">> >>, << <<"*","*">>, <<"*",".","h","c","l">> >> >>],
       [type |-> "kubernetes", patterns |-> << << <<"*","*">>, <<"*",".","y","a","m","l">> >>, << <<"*","*">>, <<"*",".","y","m","l">> >> >>] >>

\* the names _add_source_samples skips (line 576)
SourceSkip ==
    { <<"t","e","s","t">>, <<"v","e","n","d","o","r">>,
      <<"n","o","d","e","_","m","o","d","u","l","e","s">>,
      <<"_","_","p","y","c","a","c","h","e","_","_">>,
      <<".","t","e","r","r","a","g","r","u","n","t","-","c","a","c","h","e">>,
      <<".","t","e","r","r","a","f","o","r","m">> }

\* self.skip_dirs (lines 72-79)
skip_dirs ==
    { <<".","a","w","s","-","s","a","m">>, <<".","e","n","v">>,
      <<".","g","i","t">>, <<".","h","g">>, <<".","i","d","e","a">>,
      <<".","n","e","x","t">>, <<".","n","u","x","t">>,
      <<".","p","y","t","e","s","t","_","c","a","c","h","e">>,
      <<".","s","e","r","v","e","r","l","e","s","s">>, <<".","s","v","n">>,
      <<".","t","e","r","r","a","f","o","r","m">>,
      <<".","t","e","r","r","a","g","r","u","n","t","-","c","a","c","h","e">>,
      <<".","v","s","c","o","d","e">>,
      <<"_","_","p","y","c","a","c","h","e","_","_">>,
      <<"b","u","i","l","d">>, <<"c","d","k",".","o","u","t">>,
      <<"c","o","v","e","r","a","g","e">>, <<"d","i","s","t">>,
      <<"e","n","v">>, <<"l","o","g","s">>,
      <<"n","o","d","e","_","m","o","d","u","l","e","s">>, <<"o","u","t">>,
      <<"t","a","r","g","e","t">>, <<"t","e","m","p">>, <<"t","m","p">>,
      <<"v","e","n","d","o","r">>, <<"v","e","n","v">> }

\* self.skip_extensions (lines 82-90)
skip_extensions ==
    { <<".","7","z">>, <<".","a","v","i">>, <<".","b","a","k">>,
      <<".","b","i","n">>, <<".","b","z","2">>, <<".","c","a","c","h","e">>,
      <<".","c","l","a","s","s">>, <<".","d","l","l">>, <<".","d","o","c">>,
      <<".","d","o","c","x">>, <<".","d","y","l","i","b">>,
      <<".","e","x","e">>, <<".","g","i","f">>, <<".","g","z">>,
      <<".","i","c","o">>, <<".","j","a","r">>, <<".","j","p","e","g">>,
      <<".","j","p","g">>, <<".","l","o","c","k">>, <<".","l","o","g">>,
      <<".","m","a","p">>, <<".","m","i","n",".","c","s","s">>,
      <<".","m","i","n",".","j","s">>, <<".","m","o","v">>,
      <<".","m","p","3">>, <<".","m","p","4">>, <<".","p","d","f">>,
      <<".","p","n","g">>, <<".","p","y","c">>, <<".","p","y","d">>,
      <<".","p","y","o">>, <<".","r","a","r">>, <<".","s","o">>,
      <<".","s","v","g">>, <<".","s","w","p">>, <<".","t","a","r">>,
      <<".","t","f","p","l","a","n">>, <<".","t","f","s","t","a","t","e">>,
      <<".","t","m","p">>, <<".","w","a","r">>, <<".","w","e","b","p">>,
      <<".","z","i","p">> }

\* the hidden names get_directory_structure keeps (line 121)
ShownHidden ==
    { <<".","g","i","t","h","u","b">>,
      <<".","g","i","t","l","a","b","-","c","i",".","y","m","l">>,
      <<".","e","n","v",".","e","x","a","m","p","l","e">>,
      <<".","c","i","r","c","l","e","c","i">> }

----------------------------------------------------------------------------
(* The files of the model                                                  *)

\* the files a repository of the model may hold, by relative path
f_README_md == << <<"R","E","A","D","M","E",".","m","d">> >>
f_STATUS_md == << <<"S","T","A","T","U","S",".","m","d">> >>
f_main_tf == << <<"m","a","i","n",".","t","f">> >>
f_requirements_txt == << <<"r","e","q","u","i","r","e","m","e","n","t","s",".","t","x","t">> >>
f_main_py == << <<"m","a","i","n",".","p","y">> >>
f_github_workflows_ci_yml == << <<".","g","i","t","h","u","b">>, <<"w","o","r","k","f","l","o","w","s">>, <<"c","i",".","y","m","l">> >>
f_policies_p_json == << <<"p","o","l","i","c","i","e","s">>, <<"p",".","j","s","o","n">> >>
f_app_conf == << <<"a","p","p",".","c","o","n","f">> >>
f_config_conf == << <<"c","o","n","f","i","g",".","c","o","n","f">> >>
f_out_conf == << <<"o","u","t",".","c","o","n","f">> >>
f_config_bak == << <<"c","o","n","f","i","g",".","b","a","k">> >>
f_venv_a_py == << <<"v","e","n","v">>, <<"a",".","p","y">> >>
f_src_a_py == << <<"s","r","c">>, <<"a",".","p","y">> >>
f_modules_build_main_tf == << <<"m","o","d","u","l","e","s">>, <<"b","u","i","l","d">>, <<"m","a","i","n",".","t","f">> >>
f_policies_dist_p_json == << <<"p","o","l","i","c","i","e","s">>, <<"d","i","s","t">>, <<"p",".","j","s","o","n">> >>
f_a_terraform_tf == << <<"a",".","t","e","r","r","a","f","o","r","m",".","t","f">> >>
f_CONTEXT_md == << <<"C","O","N","T","E","X","T",".","m","d">> >>
f_notes_log == << <<"n","o","t","e","s",".","l","o","g">> >>
f_ctx == << <<".","c","t","x">> >>

\* every file of the model in the order sorted() gives paths
SortedPaths ==
    << f_ctx, f_github_workflows_ci_yml, f_CONTEXT_md, f_README_md,
       f_STATUS_md, f_a_terraform_tf, f_app_conf, f_config_bak,
       f_config_conf, f_main_py, f_main_tf, f_modules_build_main_tf,
       f_notes_log, f_out_conf, f_policies_dist_p_json, f_policies_p_json,
       f_requirements_txt, f_src_a_py, f_venv_a_py >>

\* every file of the model in the order a glob yields matches: a directory's
\* own files before those of its subdirectories, and scandir, whose order is
\* the file system's, taken to enumerate by name
WalkOrder ==
    << f_ctx, f_CONTEXT_md, f_README_md, f_STATUS_md, f_a_terraform_tf,
       f_app_conf, f_config_bak, f_config_conf, f_main_py, f_main_tf,
       f_notes_log, f_out_conf, f_requirements_txt,
       f_github_workflows_ci_yml, f_modules_build_main_tf,
       f_policies_p_json, f_policies_dist_p_json, f_src_a_py, f_venv_a_py >>

\* the files of the repositories the assembly is run on
AsmPaths ==
    { f_README_md, f_STATUS_md, f_main_tf, f_requirements_txt, f_main_py,
      f_github_workflows_ci_yml, f_policies_p_json, f_app_conf }

\* further files: names that meet the exclusion tests, and output artifacts
WidePaths ==
    { f_config_conf, f_out_conf, f_config_bak, f_venv_a_py, f_src_a_py,
      f_modules_build_main_tf, f_policies_dist_p_json, f_a_terraform_tf,
      f_CONTEXT_md, f_notes_log, f_ctx }

\* every file and directory name of the model, in Python's string order
NameOrder ==
    << <<".","c","t","x">>, <<".","g","i","t","h","u","b">>,
       <<"C","O","N","T","E","X","T",".","m","d">>,
       <<"R","E","A","D","M","E",".","m","d">>,
       <<"S","T","A","T","U","S",".","m","d">>, <<"a",".","p","y">>,
       <<"a",".","t","e","r","r","a","f","o","r","m",".","t","f">>,
       <<"a","p","p",".","c","o","n","f">>, <<"b","u","i","l","d">>,
       <<"c","i",".","y","m","l">>,
       <<"c","o","n","f","i","g",".","b","a","k">>,
       <<"c","o","n","f","i","g",".","c","o","n","f">>,
       <<"d","i","s","t">>, <<"m","a","i","n",".","p","y">>,
       <<"m","a","i","n",".","t","f">>, <<"m","o","d","u","l","e","s">>,
       <<"n","o","t","e","s",".","l","o","g">>,
       <<"o","u","t",".","c","o","n","f">>, <<"p",".","j","s","o","n">>,
       <<"p","o","l","i","c","i","e","s">>,
       <<"r","e","q","u","i","r","e","m","e","n","t","s",".","t","x","t">>,
       <<"s","r","c">>, <<"v","e","n","v">>,
       <<"w","o","r","k","f","l","o","w","s">> >>

\* the content of each file of the model, as bytes
BytesOf(f) ==
    CASE f = f_README_md        -> <<"a", "nl", "a">>
      [] f = f_STATUS_md        -> <<"a">>
      [] f = f_main_tf          -> <<"a", "a", "a", "a">>
      [] f = f_requirements_txt -> <<"a", "nl">>
      [] f = f_main_py          -> <<"a", "nl", "a", "nl">>
      [] f = f_github_workflows_ci_yml -> <<>>
      [] f = f_policies_p_json  -> <<"bad", "a">>
      [] f = f_app_conf         -> <<"a", "a">>
      [] OTHER                  -> <<"a">>

----------------------------------------------------------------------------
(* Sequences                                                               *)

\* s[:n]
Take(s, n) == SubSeq(s, 1, IF Len(s) < n THEN Len(s) ELSE n)

RECURSIVE Concat(_)
\* the concatenation of a sequence of sequences
Concat(ss) == IF ss = <<>> THEN <<>> ELSE Head(ss) \o Concat(Tail(ss))

RECURSIVE SumSeq(_)
\* sum(s)
SumSeq(s) == IF s = <<>> THEN 0 ELSE Head(s) + SumSeq(Tail(s))

\* len(sep.join(parts)) for a separator of seplen characters
JoinedLen(lens, seplen) ==
    IF lens = <<>> THEN 0 ELSE SumSeq(lens) + (Len(lens) - 1) * seplen

----------------------------------------------------------------------------
(* The file system below repo_path                                         *)

\* Path.is_dir(): rel is a proper prefix of some file
IsDir(rel) == \E f \in repo : Len(f) > Len(rel) /\ SubSeq(f, 1, Len(rel)) = rel

\* Path.is_file()
IsFile(rel) == rel \in repo

\* Path.exists()
Exists(rel) == IsFile(rel) \/ IsDir(rel)

\* str(path.relative_to(repo_path))
RelStr(rel) == Flatten(rel, <<"/">>)

\* Path.suffix: from the last dot of the name, unless that dot is the first
\* or the last character
Suffix(name) ==
    LET dots == { i \in 1..Len(name) : name[i] = "." }
    IN  IF dots = {} THEN <<>>
        ELSE LET i == CHOOSE d \in dots : \A e \in dots : e <= d
             IN  IF i > 1 /\ i < Len(name) THEN SubSeq(name, i, Len(name))
                 ELSE <<>>

RECURSIVE MatchName(_, _)
\* fnmatch of one path component: "*" stands for any run of characters
MatchName(pat, name) ==
    IF pat = <<>> THEN name = <<>>
    ELSE IF Head(pat) = "*"
         THEN \E k \in 0..Len(name) :
                  MatchName(Tail(pat), SubSeq(name, k + 1, Len(name)))
    ELSE name # <<>> /\ Head(name) = Head(pat)
                     /\ MatchName(Tail(pat), Tail(name))

RECURSIVE MatchPath(_, _)
\* a glob pattern against a relative path: "**" stands for any run of
\* directories, every other component for one name
MatchPath(pats, comps) ==
    IF pats = <<>> THEN comps = <<>>
    ELSE IF Head(pats) = <<"*","*">>
         THEN \E k \in 0..Len(comps) :
                  MatchPath(Tail(pats), SubSeq(comps, k + 1, Len(comps)))
    ELSE comps # <<>> /\ MatchName(Head(pats), Head(comps))
                      /\ MatchPath(Tail(pats), Tail(comps))

\* '*' in pattern
IsGlob(pattern) ==
    \E i \in 1..Len(pattern) : \E j \in 1..Len(pattern[i]) : pattern[i][j] = "*"

\* list(self.repo_path.glob(pattern)): the files that match, in walk order
Glob(pattern) ==
    SelectSeq(WalkOrder, LAMBDA f : f \in repo /\ MatchPath(pattern, f))

\* sorted(files) for a list of distinct paths
Sorted(files) ==
    SelectSeq(SortedPaths, LAMBDA f : \E i \in 1..Len(files) : files[i] = f)

\* any(skip in str(f) for skip in names)
AnyIn(names, f) == \E s \in names : Contains(PathStr(f), s)

----------------------------------------------------------------------------
(* Candidate locators                                                      *)

\* one indicator of detect_project_types (lines 97-104)
Indicated(ind) == IF IsGlob(ind) THEN Glob(ind) # <<>> ELSE Exists(ind)

\* detect_project_types (lines 92-106)
detect_project_types ==
    LET hit == SelectSeq(project_indicators,
                   LAMBDA r : \E i \in 1..Len(r.patterns) : Indicated(r.patterns[i]))
    IN  [i \in 1..Len(hit) |-> hit[i].type]

\* the entry points one pattern of find_entry_points adds (lines 307-315)
EntryMatches(lang, pattern) ==
    IF IsGlob(pattern)
    THEN LET kept == SelectSeq(Take(Glob(pattern), 3),
                               LAMBDA f : ~AnyIn(skip_dirs, f))
         IN  [i \in 1..Len(kept) |-> [lang |-> lang, file |-> kept[i]]]
    ELSE IF Exists(pattern) THEN << [lang |-> lang, file |-> pattern] >>
    ELSE <<>>

\* find_entry_points (lines 282-317)
find_entry_points ==
    LET OfLang(r) ==
            Concat([j \in 1..Len(r.files) |-> EntryMatches(r.lang, r.files[j])])
    IN  Concat([i \in 1..Len(entry_patterns) |-> OfLang(entry_patterns[i])])

\* the files one pattern of important_files hands to _add_file_content
\* (lines 446-454)
KeyPatternFiles(pattern) ==
    IF IsGlob(pattern)
    THEN SelectSeq(Take(Glob(pattern), 3), LAMBDA f : ~AnyIn(LoaderSkip, f))
    ELSE IF Exists(pattern) THEN << pattern >>
    ELSE <<>>

\* the directories of modules_dir.iterdir() (lines 341-342)
ModuleDirs ==
    SelectSeq(NameOrder, LAMBDA d : IsDir(<< <<"m","o","d","u","l","e","s">>, d >>))

\* main.tf first, then the other *.tf of one module (lines 344-349)
ModuleFiles(d) ==
    LET dir     == << <<"m","o","d","u","l","e","s">>, d >>
        main_tf == dir \o << <<"m","a","i","n",".","t","f">> >>
    IN  (IF Exists(main_tf) THEN << main_tf >> ELSE <<>>)
        \o SelectSeq(Glob(dir \o << <<"*",".","t","f">> >>),
                     LAMBDA f : f[Len(f)] # <<"m","a","i","n",".","t","f">>)

\* _find_terraform_files (lines 319-356)
find_terraform_files ==
    LET named == SelectSeq(
                   << << <<"t","e","r","r","a","g","r","u","n","t",".","h","c","l">> >>,
                      << <<"c","o","m","m","o","n",".","h","c","l">> >>,
                      << <<"a","c","c","o","u","n","t",".","h","c","l">> >>,
                      << <<"b","a","c","k","e","n","d",".","h","c","l">> >>,
                      << <<"e","m","p","t","y",".","h","c","l">> >> >>,
                   Exists)
        roots == Glob(<< <<"*",".","t","f">> >>)
                 \o Glob(<< <<"*",".","t","f","v","a","r","s",".","e","x","a","m","p","l","e">> >>)
        mods  == IF Exists(<< <<"m","o","d","u","l","e","s">> >>)
                 THEN Concat([i \in 1..Len(ModuleDirs) |->
                                 ModuleFiles(ModuleDirs[i])])
                 ELSE <<>>
        accts == SelectSeq(
                   Glob(<< <<"a","c","c","o","u","n","t","s">>, <<"*","*">>,
                           <<"t","e","r","r","a","g","r","u","n","t",".","h","c","l">> >>),
                   LAMBDA f : ~Contains(PathStr(f),
                       <<".","t","e","r","r","a","g","r","u","n","t","-","c","a","c","h","e">>))
    IN  Take(named \o roots \o mods \o accts, 30)

\* _find_policy_files (lines 358-368)
find_policy_files ==
    LET dir   == << <<"p","o","l","i","c","i","e","s">> >>
        found == IF Exists(dir)
                 THEN Glob(dir \o << <<"*","*">>, <<"*",".","j","s","o","n">> >>)
                      \o Glob(dir \o << <<"*","*">>, <<"*",".","y","a","m","l">> >>)
                      \o Glob(dir \o << <<"*","*">>, <<"*",".","y","m","l">> >>)
                 ELSE <<>>
    IN  Take(SelectSeq(found,
                 LAMBDA f : ~Contains(PathStr(f), <<".","g","i","t">>)), 15)

\* _find_config_files (lines 532-546)
find_config_files ==
    LET config_files ==
            Concat([i \in 1..Len(config_patterns) |-> Glob(config_patterns[i])])
    IN  Take(SelectSeq(config_files, LAMBDA f : ~AnyIn(skip_dirs, f)), 20)

\* the stat().st_size of a file
FileSize(f) == Len(BytesOf(f))

\* sorted(files)[:3] for one source pattern (lines 573-582)
SourceFiles(pattern) ==
    Take(Sorted(SelectSeq(Glob(pattern),
             LAMBDA f : ~AnyIn(SourceSkip, f) /\ IsFile(f) /\ FileSize(f) < 50000)), 3)

\* the patterns _add_source_samples walks: those of the first two project
\* types that have source patterns (lines 568-572)
SourcePatternsOf(types) ==
    LET firsts == Take(types, 2)
        PatternsFor(ty) ==
            LET rs == SelectSeq(source_patterns, LAMBDA r : r.type = ty)
            IN  Concat([j \in 1..Len(rs) |-> rs[j].patterns])
    IN  Concat([i \in 1..Len(firsts) |-> PatternsFor(firsts[i])])

----------------------------------------------------------------------------
(* get_directory_structure                                                 *)

\* sorted(path.iterdir(), key=lambda x: (x.is_file(), x.name)): directories
\* first, each group by name
SortedItems(dir) ==
    SelectSeq(NameOrder, LAMBDA n : IsDir(dir \o << n >>))
    \o SelectSeq(NameOrder, LAMBDA n : IsFile(dir \o << n >>))

\* the items build_tree leaves out (lines 121-130)
TreeSkips(dir, name) ==
    \/ name[1] = "." /\ name \notin ShownHidden
    \/ name \in skip_dirs
    \/ IsFile(dir \o << name >>) /\ Suffix(name) \in skip_extensions

RECURSIVE build_tree(_, _, _)
\* build_tree (lines 112-141): one line per shown item, each with the
\* "last item" flags of its ancestors (the prefix) and its own
build_tree(dir, prefix, depth) ==
    IF depth > 4 THEN <<>>
    ELSE LET items == SortedItems(dir)
             Line(i) ==
                 LET name    == items[i]
                     is_last == i = Len(items)
                 IN  IF TreeSkips(dir, name) THEN <<>>
                     ELSE << [prefix |-> prefix, last |-> is_last, name |-> name] >>
                          \o (IF IsDir(dir \o << name >>) /\ depth < 4
                              THEN build_tree(dir \o << name >>,
                                              Append(prefix, is_last), depth + 1)
                              ELSE <<>>)
         IN  Concat([i \in 1..Len(items) |-> Line(i)])

\* get_directory_structure (lines 108-150): the lines below the root line,
\* cut after 150 lines in all
get_directory_structure ==
    LET lines == build_tree(<<>>, <<>>, 0)
    IN  IF Len(lines) + 1 > 150
        THEN [lines |-> Take(lines, 149), cut |-> TRUE]
        ELSE [lines |-> lines, cut |-> FALSE]

\* len() of the tree text: the root line "r/", and four characters of prefix
\* per level and four of connector before each name
TreeLen(tree) ==
    JoinedLen(<< Len(repo_path[Len(repo_path)]) + 1 >>
              \o [i \in 1..Len(tree.lines) |->
                     4 * Len(tree.lines[i].prefix) + 4 + Len(tree.lines[i].name)]
              \o (IF tree.cut THEN << 15 >> ELSE <<>>), 1)

----------------------------------------------------------------------------
(* Content Loader: get_file_content                                        *)

Byte == {"a", "nl", "bad"}

\* read_text(encoding='utf-8', errors='ignore'): undecodable bytes are dropped
Decode(bytes) == SelectSeq(bytes, LAMBDA b : b # "bad")

RECURSIVE Split(_)
\* content.split('\n'): always at least one piece
Split(s) ==
    IF \A i \in 1..Len(s) : s[i] # "nl" THEN << s >>
    ELSE LET k == CHOOSE i \in 1..Len(s) :
                      s[i] = "nl" /\ \A j \in 1..(i - 1) : s[j] # "nl"
         IN  << SubSeq(s, 1, k - 1) >> \o Split(SubSeq(s, k + 1, Len(s)))

\* '\n'.join(lines)
Join(lines) == Flatten(lines, <<"nl">>)

\* the lines kept by lines[:max_lines]
HeadLines(lines, max_lines) == SubSeq(lines, 1, max_lines)

\* line 169: the first max_lines pieces and the count the trailer names
Truncated(lines, max_lines) ==
    [kind |-> "truncated",
     head |-> Join(HeadLines(lines, max_lines)),
     more |-> Len(lines) - max_lines]

\* a size test that lets a file one byte over the ceiling through
TooLarge_late(size) == size > max_file_size + 1

\* line 161: the size test that replaces a file by the placeholder
TooLarge(size) == size > max_file_size

\* line 156: the path test made before anything else
InLoaderSkip(f) == \E s \in LoaderSkip : Contains(PathStr(f.path), s)

\* whether get_file_content reaches read_text (line 165) for f
ReadsContent(f) ==
    /\ ~InLoaderSkip(f)
    /\ f.statOk
    /\ ~TooLarge(Len(f.bytes))

\* get_file_content(file_path, max_lines), lines 152-174.  A file is a
\* record [path, bytes, statOk, readOk]: stat() and read_text() raise when
\* statOk and readOk are FALSE, and the except clause turns that into the
\* error placeholder, which quotes the path.
get_file_content(f, max_lines) ==
    IF InLoaderSkip(f) THEN [kind |-> "none"]
    ELSE IF ~f.statOk THEN [kind |-> "error", path |-> f.path]
    ELSE IF TooLarge(Len(f.bytes))
         THEN [kind |-> "too_large", bytes |-> Len(f.bytes)]
    ELSE IF ~f.readOk THEN [kind |-> "error", path |-> f.path]
    ELSE LET content == Decode(f.bytes)
             lines   == Split(content)
         IN  IF Len(lines) > max_lines
             THEN Truncated(lines, max_lines)
             ELSE [kind |-> "text", text |-> content]

\* len(content) of a get_file_content result; None and "" have no length
\* that matters (they are falsy) and count 0
ContentLen(c) ==
    CASE c.kind = "none"      -> 0
      [] c.kind = "text"      -> Len(c.text)
      [] c.kind = "truncated" -> Len(c.head) + 18 + DigitLen(c.more) + 12
      [] c.kind = "too_large" -> 17 + CommaLen(c.bytes) + 7
      [] c.kind = "error"     -> 21 + 31 + Len(PathStr(c.path)) + 1 + 1

\* the truth value Python gives a get_file_content result (line 498)
Truthy(c) == c.kind # "none" /\ ContentLen(c) > 0

----------------------------------------------------------------------------
(* Budget Tracker and Document                                             *)

\* the length of the Git Information content of a repository under git
GitLen == 60

\* the per-file ceilings the assembly is run with: a tiny one and the default
AsmMaxFileSizes == {2, 10000}

\* the global ceilings the assembly is run with
AsmMaxTotalSizes == {100, 350}

\* the elements of a sequence
Range(s) == { s[i] : i \in 1..Len(s) }

\* the file record of a path of the repository
FileOf(f) ==
    [path |-> f, bytes |-> BytesOf(f), statOk |-> TRUE, readOk |-> f \notin denied]

\* total_size > max_total_size * (num / den), in integers
Over(total, num, den) == den * total > num * max_total_size

\* total_size < max_total_size * (num / den), in integers
Under(total, num, den) == den * total < num * max_total_size

\* reached after category c's check of total_size against num/den of the
\* ceiling: c joins when the check finds total_size over it
Checked(c, num, den) ==
    IF Over(total_size, num, den) THEN reached \union {c} ELSE reached

\* a fit test that leaves the candidate's length out
WouldFit_nolen(total, len) == total < max_total_size

\* the fit test of _add_file_content (line 498)
WouldFit(total, len) == total + len < max_total_size

\* a commit that counts the fragment without the per-fragment overhead
Committed_nooverhead(total, len) == total + len

\* total_size after _add_file_content commits a fragment (line 506)
Committed(total, len) == total + len + 100

\* the parts _add_file_content appends for an accepted fragment (504-505)
FragmentParts(c, f, content) ==
    << [kind |-> "ftitle", cat |-> c, path |-> f],
       [kind |-> "fbody", cat |-> c, path |-> f, content |-> content] >>

\* the parts add_section appends (lines 372-373)
SectionParts(c, body) ==
    << [kind |-> "title", cat |-> c], [kind |-> "content", cat |-> c, body |-> body] >>

\* len(title) for each section title
TitleLen(c) ==
    CASE c = "Project Structure"   -> 17
      [] c = "Git Information"     -> 15
      [] c = "Package Information" -> 19
      [] c = "Entry Points"        -> 12
      [] c = "Key Files"           -> 9
      [] c = "Terraform/Terragrunt Configuration" -> 34
      [] c = "Policy Files"        -> 12
      [] c = "Configuration Files" -> 19
      [] c = "Source Code Samples" -> 19

\* the record of one _add_file_content call: the candidate, the length of its
\* rendering, total_size and len(context_parts) before the call, and the
\* categories in which a rendered fragment has been rejected so far
Attempt(c, f, content, accepted) ==
    [n |-> att.n + 1, cat |-> c, path |-> f, len |-> ContentLen(content),
     truthy |-> Truthy(content), accepted |-> accepted,
     pre_total |-> total_size, pre_parts |-> Len(context_parts),
     dropped |-> IF Truthy(content) /\ ~accepted
                 THEN att.dropped \union {c} ELSE att.dropped]

\* an _add_file_content that appends the title of a fragment it rejects
add_file_content_partial(c, f) ==
    LET content  == get_file_content(FileOf(f), 50)
        accepted == Truthy(content) /\ WouldFit(total_size, ContentLen(content))
    IN  /\ context_parts' = IF accepted
                            THEN context_parts \o FragmentParts(c, f, content)
                            ELSE Append(context_parts,
                                        [kind |-> "ftitle", cat |-> c, path |-> f])
        /\ total_size' = IF accepted
                         THEN Committed(total_size, ContentLen(content))
                         ELSE total_size
        /\ att' = Attempt(c, f, content, accepted)

\* an _add_file_content that charges the overhead of a fragment it rejects
add_file_content_charging(c, f) ==
    LET content  == get_file_content(FileOf(f), 50)
        accepted == Truthy(content) /\ WouldFit(total_size, ContentLen(content))
    IN  /\ context_parts' = IF accepted
                            THEN context_parts \o FragmentParts(c, f, content)
                            ELSE context_parts
        /\ total_size' = IF accepted
                         THEN Committed(total_size, ContentLen(content))
                         ELSE total_size + 100
        /\ att' = Attempt(c, f, content, accepted)

\* an _add_file_content that accepts nothing more in a category once it has
\* rejected a fragment of it
add_file_content_truncating(c, f) ==
    LET content  == get_file_content(FileOf(f), 50)
        accepted == /\ Truthy(content)
                    /\ WouldFit(total_size, ContentLen(content))
                    /\ c \notin att.dropped
    IN  /\ context_parts' = IF accepted
                            THEN context_parts \o FragmentParts(c, f, content)
                            ELSE context_parts
        /\ total_size' = IF accepted
                         THEN Committed(total_size, ContentLen(content))
                         ELSE total_size
        /\ att' = Attempt(c, f, content, accepted)

\* _add_file_content(file_path) (lines 494-506), called for category c
add_file_content(c, f) ==
    LET content  == get_file_content(FileOf(f), 50)
        accepted == Truthy(content) /\ WouldFit(total_size, ContentLen(content))
    IN  /\ context_parts' = IF accepted
                            THEN context_parts \o FragmentParts(c, f, content)
                            ELSE context_parts
        /\ total_size' = IF accepted
                         THEN Committed(total_size, ContentLen(content))
                         ELSE total_size
        /\ att' = Attempt(c, f, content, accepted)

\* add_section(title, content) (lines 370-374) for a content of len characters
add_section(c, body, len) ==
    /\ context_parts' = context_parts \o SectionParts(c, body)
    /\ total_size' = total_size + TitleLen(c) + len

----------------------------------------------------------------------------
(* extract_package_info                                                    *)

\* Path.read_text() with the default strict decoding raises on a file that
\* cannot be opened or holds an undecodable byte
StrictReadRaises(f) ==
    f \in denied \/ \E i \in 1..Len(BytesOf(f)) : BytesOf(f)[i] = "bad"

\* whether extract_package_info raises (lines 181-187, 214-215): of the files
\* it reads outside a try block the model holds requirements.txt only
PackageInfoRaises ==
    Exists(f_requirements_txt) /\ StrictReadRaises(f_requirements_txt)

\* info['python_requirements'] (lines 182-184): the non-empty lines, 20 at most
PythonRequirements ==
    Take(SelectSeq(Split(BytesOf(f_requirements_txt)), LAMBDA r : r # <<>>), 20)

\* extract_package_info (lines 176-227), for the package files of the model
extract_package_info ==
    IF Exists(f_requirements_txt)
    THEN [python_requirements |-> PythonRequirements]
    ELSE [none |-> TRUE]

\* len(json.dumps(info, indent=2)) for info = {'python_requirements': deps}
PackageJsonLen(deps) ==
    IF deps = <<>> THEN 31
    ELSE 29 + JoinedLen([i \in 1..Len(deps) |-> 6 + Len(deps[i])], 2) + 6

\* len() of the Entry Points content: one "- **lang:** `file`" line each
EntryLen(eps) ==
    JoinedLen([i \in 1..Len(eps) |->
                   4 + Len(eps[i].lang) + 5 + Len(RelStr(eps[i].file)) + 1], 1)

----------------------------------------------------------------------------
(* main and generate_context, step by step                                 *)

NoArtifact == << [kind |-> "none"] >>

\* what a run is given and never changes
Inputs == <<max_file_size, max_total_size, denied, root, git, output_file, ld,
            first>>

\* a main that constructs the generator without validating the path
Main_novalidate ==
    /\ pc = "main"
    /\ pc' = "construct"
    /\ UNCHANGED <<total_size, context_parts, project_types, idx, cands, att,
                   constructed, generated, repo, written,
                   reached, Inputs>>

\* main, lines 646-656: the repository path is validated first
Main ==
    /\ pc = "main"
    /\ pc' = IF root = "dir" THEN "construct" ELSE "exit1"
    /\ UNCHANGED <<total_size, context_parts, project_types, idx, cands, att,
                   constructed, generated, repo, written,
                   reached, Inputs>>

\* main, lines 660-665: RepoContextGenerator.__init__ (lines 29-36)
Construct ==
    /\ pc = "construct"
    /\ constructed' = TRUE
    /\ total_size' = 0
    /\ context_parts' = <<>>
    /\ pc' = "header"
    /\ UNCHANGED <<project_types, idx, cands, att, generated, repo, written,
                   reached, Inputs>>

\* save() enters generate_context: detect_project_types and the header
\* (lines 589-594, 379-394); the timestamp is left out of the header
Header ==
    /\ pc = "header"
    /\ generated' = TRUE
    /\ project_types' = detect_project_types
    /\ context_parts' = context_parts
           \o << [kind |-> "header", types |-> detect_project_types] >>
    /\ pc' = "structure"
    /\ UNCHANGED <<total_size, idx, cands, att, constructed, repo, written,
                   reached, Inputs>>

\* lines 396-397
Structure ==
    /\ pc = "structure"
    /\ LET tree == get_directory_structure
       IN  add_section("Project Structure", tree, 4 + TreeLen(tree) + 4)
    /\ pc' = "git"
    /\ UNCHANGED <<project_types, idx, cands, att, constructed, generated, repo,
                   written,
                   reached, Inputs>>

\* lines 399-414: get_git_info is the environment's; git = "ok" stands for a
\* repository whose section content has GitLen characters
GitInformation ==
    /\ pc = "git"
    /\ IF git = "ok"
       THEN add_section("Git Information", [len |-> GitLen], GitLen)
       ELSE UNCHANGED <<context_parts, total_size>>
    /\ pc' = "package"
    /\ UNCHANGED <<project_types, idx, cands, att, constructed, generated, repo,
                   written,
                   reached, Inputs>>

\* lines 416-419; an exception of extract_package_info leaves generate_context
\* and save, and main's except clause exits with status 1 (lines 669-671)
PackageInformation ==
    /\ pc = "package"
    /\ IF PackageInfoRaises
       THEN /\ pc' = "exit1"
            /\ UNCHANGED <<context_parts, total_size>>
       ELSE /\ pc' = "entry"
            /\ IF Exists(f_requirements_txt)
               THEN add_section("Package Information", extract_package_info,
                                8 + PackageJsonLen(PythonRequirements) + 4)
               ELSE UNCHANGED <<context_parts, total_size>>
    /\ UNCHANGED <<project_types, idx, cands, att, constructed, generated, repo,
                   written,
                   reached, Inputs>>

\* lines 421-427
EntryPoints ==
    /\ pc = "entry"
    /\ LET eps == find_entry_points
       IN  IF eps # <<>>
           THEN add_section("Entry Points", eps, EntryLen(eps))
           ELSE UNCHANGED <<context_parts, total_size>>
    /\ pc' = "keyhdr"
    /\ UNCHANGED <<project_types, idx, cands, att, constructed, generated, repo,
                   written,
                   reached, Inputs>>

\* line 430
KeyFilesSection ==
    /\ pc = "keyhdr"
    /\ add_section("Key Files", [len |-> 0], 0)
    /\ pc' = "status"
    /\ UNCHANGED <<project_types, idx, cands, att, constructed, generated, repo,
                   written,
                   reached, Inputs>>

\* lines 432-435: STATUS.md first
StatusFile ==
    /\ pc = "status"
    /\ IF Exists(f_STATUS_md) /\ Under(total_size, 8, 10)
       THEN add_file_content("Key Files", f_STATUS_md)
       ELSE UNCHANGED <<context_parts, total_size, att>>
    /\ reached' = IF Exists(f_STATUS_md) THEN Checked("Key Files", 8, 10)
                  ELSE reached
    /\ pc' = "keyloop"
    /\ idx' = 1
    /\ UNCHANGED <<project_types, cands, constructed, generated, repo, written,
                   Inputs>>

\* the files of the pattern at index i: STATUS.md is passed over (line 443)
KeyFilesAt(i) ==
    IF important_files[i] = f_STATUS_md THEN <<>>
    ELSE KeyPatternFiles(important_files[i])

\* the first index from i on whose pattern hands files to _add_file_content,
\* or one past the list
NextKeyPattern(i) ==
    LET hits == { j \in i..Len(important_files) : KeyFilesAt(j) # <<>> }
    IN  IF hits = {} THEN Len(important_files) + 1
        ELSE CHOOSE j \in hits : \A k \in hits : j <= k

\* a key-file loop whose checkpoint writes the notice but does not break
KeyLoop_nobreak ==
    /\ pc = "keyloop"
    /\ IF idx > Len(important_files)
       THEN /\ pc' = "tf"
            /\ UNCHANGED <<context_parts, idx, cands>>
       ELSE LET j == NextKeyPattern(idx)
            IN  /\ idx' = j
                /\ cands' = IF j > Len(important_files) THEN <<>>
                            ELSE KeyFilesAt(j)
                /\ pc' = IF j > Len(important_files) THEN "tf" ELSE "keyadd"
                /\ context_parts' = IF Over(total_size, 8, 10)
                                    THEN context_parts \o << [kind |-> "notice"] >>
                                    ELSE context_parts
    /\ reached' = IF idx > Len(important_files) THEN reached
                  ELSE Checked("Key Files", 8, 10)
    /\ UNCHANGED <<total_size, project_types, att, constructed, generated, repo,
                   written, Inputs>>

\* lines 438-454, `for pattern in self.important_files` up to the next
\* _add_file_content call: the checkpoint, then the pattern's files.  The
\* iterations of patterns that match no file repeat the same checkpoint on
\* the same total_size and are passed over in the same step.
KeyLoop ==
    /\ pc = "keyloop"
    /\ IF idx > Len(important_files)
       THEN /\ pc' = "tf"
            /\ UNCHANGED <<context_parts, idx, cands>>
       ELSE IF Over(total_size, 8, 10)
       THEN /\ context_parts' = context_parts \o << [kind |-> "notice"] >>
            /\ pc' = "tf"
            /\ UNCHANGED <<idx, cands>>
       ELSE LET j == NextKeyPattern(idx)
            IN  /\ idx' = j
                /\ cands' = IF j > Len(important_files) THEN <<>>
                            ELSE KeyFilesAt(j)
                /\ pc' = IF j > Len(important_files) THEN "tf" ELSE "keyadd"
                /\ UNCHANGED context_parts
    /\ reached' = IF idx > Len(important_files) THEN reached
                  ELSE Checked("Key Files", 8, 10)
    /\ UNCHANGED <<total_size, project_types, att, constructed, generated, repo,
                   written, Inputs>>

\* lines 448-454: one _add_file_content call of the current pattern
KeyAdd ==
    /\ pc = "keyadd"
    /\ add_file_content("Key Files", Head(cands))
    /\ cands' = Tail(cands)
    /\ pc' = IF Tail(cands) = <<>> THEN "keyloop" ELSE "keyadd"
    /\ idx' = IF Tail(cands) = <<>> THEN idx + 1 ELSE idx
    /\ UNCHANGED <<project_types, constructed, generated, repo, written,
                   reached, Inputs>>

\* lines 456-460: the Terraform branch is entered under 85%
TerraformSection ==
    /\ pc = "tf"
    /\ IF "terraform" \in Range(project_types) /\ Under(total_size, 85, 100)
       THEN LET files == find_terraform_files
            IN  IF files # <<>>
                THEN /\ add_section("Terraform/Terragrunt Configuration",
                                    [len |-> 0], 0)
                     /\ cands' = files
                     /\ pc' = "tfloop"
                ELSE /\ UNCHANGED <<context_parts, total_size, cands>>
                     /\ pc' = "policy"
       ELSE /\ UNCHANGED <<context_parts, total_size, cands>>
            /\ pc' = "config"
    /\ reached' = IF "terraform" \in Range(project_types)
                  THEN Checked("Terraform/Terragrunt Configuration", 85, 100)
                  ELSE reached
    /\ UNCHANGED <<project_types, idx, att, constructed, generated, repo, written,
                   Inputs>>

\* one iteration of a category's file loop: the checkpoint breaks the loop,
\* otherwise the next candidate goes to _add_file_content
FileLoop(here, c, num, den, next) ==
    /\ pc = here
    /\ IF cands = <<>>
       THEN /\ pc' = next
            /\ UNCHANGED <<context_parts, total_size, att, cands>>
       ELSE IF Over(total_size, num, den)
       THEN /\ pc' = next
            /\ UNCHANGED <<context_parts, total_size, att, cands>>
       ELSE /\ add_file_content(c, Head(cands))
            /\ cands' = Tail(cands)
            /\ pc' = here
    /\ reached' = IF cands = <<>> THEN reached ELSE Checked(c, num, den)
    /\ UNCHANGED <<project_types, idx, constructed, generated, repo, written,
                   Inputs>>

\* lines 461-464
TerraformLoop ==
    FileLoop("tfloop", "Terraform/Terragrunt Configuration", 9, 10, "policy")

\* lines 466-469, inside the Terraform branch
PolicySection ==
    /\ pc = "policy"
    /\ LET files == find_policy_files
       IN  IF files # <<>> /\ Under(total_size, 95, 100)
           THEN /\ add_section("Policy Files", [len |-> 0], 0)
                /\ cands' = files
                /\ pc' = "policyloop"
           ELSE /\ UNCHANGED <<context_parts, total_size, cands>>
                /\ pc' = "config"
    /\ reached' = IF find_policy_files # <<>> THEN Checked("Policy Files", 95, 100)
                  ELSE reached
    /\ UNCHANGED <<project_types, idx, att, constructed, generated, repo, written,
                   Inputs>>

\* lines 470-473
PolicyLoop == FileLoop("policyloop", "Policy Files", 95, 100, "config")

\* lines 475-479
ConfigSection ==
    /\ pc = "config"
    /\ LET files == find_config_files
       IN  IF files # <<>> /\ Under(total_size, 9, 10)
           THEN /\ add_section("Configuration Files", [len |-> 0], 0)
                /\ cands' = Take(files, 10)
                /\ pc' = "configloop"
           ELSE /\ UNCHANGED <<context_parts, total_size, cands>>
                /\ pc' = "source"
    /\ reached' = IF find_config_files # <<>>
                  THEN Checked("Configuration Files", 9, 10)
                  ELSE reached
    /\ UNCHANGED <<project_types, idx, att, constructed, generated, repo, written,
                   Inputs>>

\* lines 479-482
ConfigLoop == FileLoop("configloop", "Configuration Files", 9, 10, "source")

\* lines 484-486 and 548-553: _add_source_samples is entered under 90% and
\* returns at once without project types
SourceSection ==
    /\ pc = "source"
    /\ IF Under(total_size, 9, 10) /\ project_types # <<>>
       THEN /\ add_section("Source Code Samples", [len |-> 0], 0)
            /\ idx' = 1
            /\ cands' = <<>>
            /\ pc' = "srcpattern"
       ELSE /\ UNCHANGED <<context_parts, total_size, idx, cands>>
            /\ pc' = "footer"
    /\ reached' = Checked("Source Code Samples", 9, 10)
    /\ UNCHANGED <<project_types, att, constructed, generated, repo, written,
                   Inputs>>

\* lines 568-582: the next source pattern and its first three sorted files
SourcePattern ==
    /\ pc = "srcpattern"
    /\ LET patterns == SourcePatternsOf(project_types)
       IN  IF idx > Len(patterns)
           THEN /\ pc' = "footer"
                /\ UNCHANGED <<idx, cands>>
           ELSE /\ cands' = SourceFiles(patterns[idx])
                /\ idx' = idx + 1
                /\ pc' = "srcloop"
    /\ UNCHANGED <<context_parts, total_size, project_types, att, constructed,
                   generated, repo, written,
                   reached, Inputs>>

\* lines 582-585: the checkpoint returns from _add_source_samples
SourceLoop ==
    /\ pc = "srcloop"
    /\ IF cands = <<>>
       THEN /\ pc' = "srcpattern"
            /\ UNCHANGED <<context_parts, total_size, att, cands>>
       ELSE IF Over(total_size, 95, 100)
       THEN /\ pc' = "footer"
            /\ UNCHANGED <<context_parts, total_size, att, cands>>
       ELSE /\ add_file_content("Source Code Samples", Head(cands))
            /\ cands' = Tail(cands)
            /\ pc' = "srcloop"
    /\ reached' = IF cands = <<>> THEN reached
                  ELSE Checked("Source Code Samples", 95, 100)
    /\ UNCHANGED <<project_types, idx, constructed, generated, repo, written,
                   Inputs>>

\* lines 488-492
Footer ==
    /\ pc = "footer"
    /\ context_parts' = context_parts
           \o << [kind |-> "footer", total |-> total_size] >>
    /\ pc' = "write"
    /\ UNCHANGED <<total_size, project_types, idx, cands, att, constructed,
                   generated, repo, written,
                   reached, Inputs>>

\* save(), lines 596-603: the artifact is written into the repository root,
\* and main returns
Write ==
    /\ pc = "write"
    /\ written' = context_parts
    /\ repo' = repo \union {output_file}
    /\ pc' = "exit0"
    /\ UNCHANGED <<total_size, context_parts, project_types, idx, cands, att,
                   constructed, generated,
                   reached, Inputs>>

Next ==
    \/ Main \/ Construct \/ Header \/ Structure \/ GitInformation
    \/ PackageInformation \/ EntryPoints \/ KeyFilesSection \/ StatusFile
    \/ KeyLoop \/ KeyAdd \/ TerraformSection \/ TerraformLoop
    \/ PolicySection \/ PolicyLoop \/ ConfigSection \/ ConfigLoop
    \/ SourceSection \/ SourcePattern \/ SourceLoop \/ Footer \/ Write

\* the state of a process that has just been started
Fresh ==
    /\ pc = "main"
    /\ total_size = 0
    /\ context_parts = <<>>
    /\ project_types = <<>>
    /\ idx = 0
    /\ cands = <<>>
    /\ att = [n |-> 0, dropped |-> {}]
    /\ reached = {}
    /\ constructed = FALSE
    /\ generated = FALSE
    /\ written = NoArtifact
    /\ first = NoArtifact

\* the assembly is run on every repository over AsmPaths, with the default
\* output file, and on a missing root and a root that is a file
Init ==
    /\ Fresh
    /\ root \in {"dir", "missing", "file"}
    /\ repo \in IF root = "dir" THEN SUBSET AsmPaths ELSE {{}}
    /\ denied \in { {f} \cap repo : f \in {f_requirements_txt, f_README_md} }
    /\ git \in IF root = "dir" THEN {"error", "ok"} ELSE {"error"}
    /\ max_file_size \in IF root = "dir" THEN AsmMaxFileSizes ELSE {10000}
    /\ max_total_size \in IF root = "dir" THEN AsmMaxTotalSizes ELSE {100000}
    /\ output_file = f_CONTEXT_md
    /\ ld = [kind |-> "unused"]

Spec == Init /\ [][Next]_vars

----------------------------------------------------------------------------
(* The loader specification: get_file_content on every small file          *)

\* paths of the loader specification: a plain file and a root file whose
\* name holds ".terraform"
LoaderPaths ==
    { << <<"a",".","t","x","t">> >>,
      << <<"b",".","t","x","t">> >>,
      << <<"a",".","t","e","r","r","a","f","o","r","m",".","t","f">> >> }

LoaderFiles ==
    [path : LoaderPaths, bytes : BoundedSeq(Byte, MaxBytes),
     statOk : BOOLEAN, readOk : BOOLEAN]

\* the per-file ceilings and line ceilings the loader is run with
LoaderMaxFileSizes == {2, 4}
LoaderMaxLines == {1, 2}

\* the loader's inputs are drawn at the start; ld.kind tells whether the call
\* has been made
InitLoader ==
    /\ max_file_size \in LoaderMaxFileSizes
    /\ max_total_size = 100000
    /\ repo = {}
    /\ denied = {}
    /\ root = "dir"
    /\ git = "error"
    /\ output_file = f_CONTEXT_md
    /\ Fresh
    /\ \E f \in LoaderFiles, ml \in LoaderMaxLines :
           ld = [kind |-> "pending", file |-> f, max_lines |-> ml]

\* one call get_file_content(f, max_lines)
GetFileContent ==
    /\ ld.kind = "pending"
    /\ ld' = [kind |-> "call", file |-> ld.file, max_lines |-> ld.max_lines,
              result |-> get_file_content(ld.file, ld.max_lines),
              read |-> ReadsContent(ld.file)]
    /\ UNCHANGED <<max_file_size, max_total_size, repo, denied, root, git,
                   output_file, pc, constructed, generated, total_size,
                   context_parts, project_types, idx, cands, att, reached, written,
                   first>>

NextLoader == GetFileContent

SpecLoader == InitLoader /\ [][NextLoader]_vars

\* the call of the loader specification has been made on a file whose size
\* stat() can tell
LoaderCalled == ld.kind = "call" /\ ld.file.statOk

\* the placeholder of a file of `size` bytes: it names the size and nothing else
Placeholder(size) == [kind |-> "too_large", bytes |-> size]

TotalLines(text) ==
    Cardinality({ i \in 1..Len(text) : text[i] = "nl" })
        + (IF text # <<>> /\ text[Len(text)] # "nl" THEN 1 ELSE 0)

\* the call read a file that is within max_file_size and has more than
\* max_lines lines
LongFileLoaded ==
    /\ LoaderCalled
    /\ ld.read
    /\ ld.file.readOk
    /\ TotalLines(Decode(ld.file.bytes)) > ld.max_lines

\* C5 as stated: a file within max_file_size with totalLines > max_lines
\* yields its first max_lines lines and a trailer naming exactly
\* totalLines - max_lines omitted lines, with or without a final newline.
C5_TrailerCountsOmitted ==
    LongFileLoaded =>
        /\ ld.result.kind = "truncated"
        /\ ld.result.head
              = Join(SubSeq(Split(Decode(ld.file.bytes)), 1, ld.max_lines))
        /\ ld.result.more = TotalLines(Decode(ld.file.bytes)) - ld.max_lines

\* a long file that ends with a newline was truncated
C5_Witness ==
    /\ LongFileLoaded
    /\ ld.file.bytes[Len(ld.file.bytes)] = "nl"
    /\ ld.result.kind = "truncated"

----------------------------------------------------------------------------
(* The wide specification: the assembly under the default ceilings on      *)
(* small repositories whose names meet the exclusion tests                 *)

\* the most files a repository of the wide specification holds
MaxRepoFiles == 3

\* the files of the wide specification: WidePaths and the files that make a
\* repository a Terraform or a Python project
WideUniverse == WidePaths \union {f_main_tf, f_requirements_txt}

InitWide ==
    /\ Fresh
    /\ root = "dir"
    /\ repo \in { r \in SUBSET WideUniverse : Cardinality(r) <= MaxRepoFiles }
    /\ denied = {}
    /\ git = "error"
    /\ max_file_size = 10000
    /\ max_total_size = 100000
    /\ output_file = f_CONTEXT_md
    /\ ld = [kind |-> "unused"]

SpecWide == InitWide /\ [][Next]_vars

----------------------------------------------------------------------------
(* The specification of two runs: the tool is run, and run again on the    *)
(* repository the first run left                                           *)

\* the files of the repositories the tool is run twice on
RunsPaths == {f_README_md, f_main_tf, f_main_py, f_app_conf, f_policies_p_json}

\* the output files the tool is run twice with: the default and --output
RunsOutputs == {f_CONTEXT_md, f_notes_log}

InitRuns ==
    /\ Fresh
    /\ root = "dir"
    /\ repo \in SUBSET RunsPaths
    /\ denied = {}
    /\ git \in {"error", "ok"}
    /\ max_file_size = 10000
    /\ max_total_size = 100000
    /\ output_file \in RunsOutputs
    /\ ld = [kind |-> "unused"]

\* main is started a second time, with the same arguments, on the repository
\* as the first run left it; what the first run wrote is kept in first
Rerun ==
    /\ pc = "exit0"
    /\ first = NoArtifact
    /\ first' = written
    /\ pc' = "main"
    /\ total_size' = 0
    /\ context_parts' = <<>>
    /\ project_types' = <<>>
    /\ idx' = 0
    /\ cands' = <<>>
    /\ att' = [n |-> 0, dropped |-> {}]
    /\ reached' = {}
    /\ constructed' = FALSE
    /\ generated' = FALSE
    /\ UNCHANGED <<repo, written, max_file_size, max_total_size, denied, root,
                   git, output_file, ld>>

NextRuns == Next \/ Rerun

SpecRuns == InitRuns /\ [][NextRuns]_vars

----------------------------------------------------------------------------
(* Claims about the budget tracker and the assembly (Spec)                 *)

\* a step in which _add_file_content was called
Attempts == att'.n # att.n

\* a step in which _add_file_content accepted (committed) a fragment
Accepts == Attempts /\ att'.accepted

\* C1, as stated: immediately after _add_file_content accepts a fragment,
\* total_size <= max_total_size.
C1_AcceptedWithinCeiling ==
    [][Accepts => total_size' <= max_total_size]_vars

\* C1, amended: immediately after _add_file_content accepts a fragment,
\* total_size is below max_total_size plus the 100 characters of overhead the
\* commit adds and the fit test leaves out.
C1_AcceptedWithinOverhead ==
    [][Accepts => /\ total_size + att'.len < max_total_size
                  /\ total_size' < max_total_size + 100]_vars

\* an accepted fragment has taken total_size past the ceiling
C1_Witness ==
    /\ att.n > 0
    /\ att.accepted
    /\ total_size = att.pre_total + att.len + 100
    /\ att.pre_total <= max_total_size
    /\ total_size > max_total_size

\* C2: _add_file_content appends a fragment only if total_size + len(fragment)
\* < max_total_size at the check, and a fragment that fails the check is
\* dropped whole: context_parts is left as it was, title and content alike.
C2_FragmentWholeOrDropped ==
    [][Attempts =>
         LET content == get_file_content(FileOf(att'.path), 50)
             fits    == total_size + ContentLen(content) < max_total_size
         IN  /\ context_parts' # context_parts => fits
             /\ ~fits => context_parts' = context_parts
             /\ context_parts' \in
                    { context_parts,
                      context_parts \o FragmentParts(att'.cat, att'.path, content) }
       ]_vars

\* a rendered fragment failed the check and nothing of it is in the document
C2_Witness ==
    /\ att.n > 0
    /\ att.truthy
    /\ ~att.accepted
    /\ att.pre_total + att.len >= max_total_size
    /\ Len(context_parts) = att.pre_parts
    /\ pc \in {"keyloop", "keyadd", "tfloop", "policyloop", "configloop", "srcloop"}

\* the rank of a category in the fixed order
Rank(c) ==
    CASE c = "Project Structure"   -> 1
      [] c = "Git Information"     -> 2
      [] c = "Package Information" -> 3
      [] c = "Entry Points"        -> 4
      [] c = "Key Files"           -> 5
      [] c = "Terraform/Terragrunt Configuration" -> 6
      [] c = "Policy Files"        -> 7
      [] c = "Configuration Files" -> 8
      [] c = "Source Code Samples" -> 9

\* the parts of a document that belong to a category
OfCategory(parts) ==
    SelectSeq(parts, LAMBDA p : p.kind \in {"title", "content", "ftitle", "fbody"})

\* whether a part is a fragment: the content of a file, or a section content
\* that is not empty
IsFragment(p) ==
    \/ p.kind = "fbody"
    \/ p.kind = "content" /\ p.body # [len |-> 0]

\* the category of the last part of the document; the category in which
\* total_size crossed the ceiling is this one or an earlier one
LastCategory == OfCategory(context_parts)[Len(OfCategory(context_parts))].cat

\* the parts a step appends
Appended == SubSeq(context_parts', Len(context_parts) + 1, Len(context_parts'))

\* C3, as stated: once total_size has crossed max_total_size during category
\* k, no fragment of a category after k is put into the document.
C3_NoLaterFragment ==
    [][total_size > max_total_size =>
         \A i \in 1..Len(Appended) :
             IsFragment(Appended[i])
                 => Rank(Appended[i].cat) <= Rank(LastCategory)]_vars

\* the ceiling was crossed by the tree alone and the Git Information content
\* is in the document
C3_Witness ==
    /\ pc = "package"
    /\ git = "ok"
    /\ total_size - GitLen - TitleLen("Git Information") > max_total_size
    /\ Len(context_parts) > 0
    /\ context_parts[Len(context_parts)].kind = "content"
    /\ context_parts[Len(context_parts)].cat = "Git Information"

\* C6: with a repository root that is missing or not a directory, main exits
\* with status 1 before any assembly: no generator is constructed,
\* generate_context is not called and no output file is written.
C6_InvalidRootStopsFirst ==
    root # "dir" =>
        /\ pc \in {"main", "exit1"}
        /\ ~constructed
        /\ ~generated
        /\ written = NoArtifact
        /\ output_file \notin repo
        /\ context_parts = <<>>

\* main has exited with status 1 on a root that is not a directory
C6_Witness == root # "dir" /\ pc = "exit1"

\* C7, as stated: no failure on a file aborts the run; on a repository root
\* that is a directory the process never exits with status 1.
C7_NoFailureAborts == root = "dir" => pc # "exit1"

\* a run that turned an unreadable file into the error placeholder and
\* exited with status 0
C7_Witness ==
    /\ pc = "exit0"
    /\ \E i \in 1..Len(written) :
          written[i].kind = "fbody" /\ written[i].content.kind = "error"

----------------------------------------------------------------------------
(* Claims about two runs (SpecRuns) and about excluded paths (SpecWide)    *)

\* C8, as stated: two consecutive runs on a repository that only the tool
\* touches write the same artifact (the timestamp apart, which the header of
\* the model leaves out).
C8_SecondRunSameArtifact ==
    (pc = "exit0" /\ first # NoArtifact) => written = first

\* the second run has finished, and the tree it rendered lists the artifact
\* the first run wrote
C8_Witness ==
    /\ pc = "exit0"
    /\ first # NoArtifact
    /\ \E i \in 1..Len(written) :
          /\ written[i].kind = "content"
          /\ written[i].cat = "Project Structure"
          /\ \E j \in 1..Len(written[i].body.lines) :
                written[i].body.lines[j].name = output_file[1]

\* a path is excluded if an ancestor directory name is in skip_dirs or its
\* extension is in skip_extensions
Excluded(f) ==
    \/ \E i \in 1..(Len(f) - 1) : f[i] \in skip_dirs
    \/ Suffix(f[Len(f)]) \in skip_extensions

\* the files of the repository root that match a pattern of config_patterns
ConfigMatches ==
    { f \in repo : \E i \in 1..Len(config_patterns) :
                      MatchPath(config_patterns[i], f) }

\* C9, as stated: no file fragment of the document comes from an excluded
\* path, and a configuration file that is not excluded is not removed by the
\* skip_dirs test of _find_config_files.
C9_NoExcludedFragment ==
    /\ \A i \in 1..Len(context_parts) :
          context_parts[i].kind = "fbody" => ~Excluded(context_parts[i].path)
    /\ pc = "exit0" =>
          \A f \in ConfigMatches \ {output_file} :
              ~Excluded(f) => f \in Range(find_config_files)

\* a finished document holds a fragment of a file below a directory named in
\* skip_dirs
C9_Witness ==
    /\ pc = "exit0"
    /\ \E i \in 1..Len(written) :
          /\ written[i].kind = "fbody"
          /\ \E j \in 1..(Len(written[i].path) - 1) :
                written[i].path[j] \in skip_dirs

----------------------------------------------------------------------------
(* Claims about rejected fragments, the notice and the counter             *)

NoticeCount(parts) == Len(SelectSeq(parts, LAMBDA p : p.kind = "notice"))

\* C12, as stated: the finished document holds exactly one truncation notice
\* if some category's checkpoint was found reached during the run, and none
\* if no checkpoint was reached.
C12_NoticeIffCheckpoint ==
    pc = "exit0" =>
        NoticeCount(written) = IF reached = {} THEN 0 ELSE 1

\* a finished run in which the checkpoint of a category after Key Files was
\* found reached and the Key Files checkpoint was not
C12_Witness ==
    /\ pc = "exit0"
    /\ reached # {}
    /\ "Key Files" \notin reached
    /\ NoticeCount(written) = 0

\* the file fragments among the parts a step appends
AppendedFragments == SelectSeq(Appended, LAMBDA p : p.kind = "fbody")

\* C13: total_size never decreases during a run; each accepted fragment is
\* counted exactly once, by its rendered length plus 100, in the step that
\* appends it, and a candidate that is not accepted adds nothing.
C13_CounterMonotoneOncePerFragment ==
    [][/\ total_size' >= total_size
       /\ Attempts =>
             total_size' = IF att'.accepted
                           THEN total_size + att'.len + 100
                           ELSE total_size
       /\ Len(AppendedFragments) = IF Accepts THEN 1 ELSE 0]_vars

\* a second candidate has been accepted and counted with its overhead, after
\* total_size had already been raised
C13_Witness ==
    /\ att.n > 1
    /\ att.accepted
    /\ att.pre_total > 0
    /\ total_size = att.pre_total + att.len + 100
    /\ total_size <= max_total_size

\* C14: a candidate whose rendered length is at least the remaining budget
\* max_total_size - total_size is rejected, and the call leaves total_size
\* and context_parts exactly as they were.
C14_RejectionChangesNothing ==
    [][Attempts /\ att'.len >= max_total_size - total_size =>
         /\ ~att'.accepted
         /\ total_size' = total_size
         /\ context_parts' = context_parts]_vars

\* the first candidate of a run was rendered, did not fit in what was left of
\* the budget, and total_size and context_parts are as before the call
C14_Witness ==
    /\ att.n = 1
    /\ att.truthy
    /\ att.pre_total < max_total_size
    /\ att.len >= max_total_size - att.pre_total
    /\ ~att.accepted
    /\ total_size = att.pre_total
    /\ Len(context_parts) = att.pre_parts

\* whether no element occurs twice in a sequence
NoDuplicates(s) == \A i, j \in 1..Len(s) : s[i] = s[j] => i = j

\* the file fragments of a document, as pairs of category and path
RenderedFiles(parts) ==
    LET bodies == SelectSeq(parts, LAMBDA p : p.kind = "fbody")
    IN  [i \in 1..Len(bodies) |-> << bodies[i].cat, bodies[i].path >>]

\* C15, as stated: the list of each locator holds no path twice, and the
\* finished document renders no file twice within one category.
C15_LocatorsDeduplicate ==
    pc = "exit0" =>
        /\ NoDuplicates(find_entry_points)
        /\ NoDuplicates(find_terraform_files)
        /\ NoDuplicates(find_policy_files)
        /\ NoDuplicates(find_config_files)
        /\ NoDuplicates(RenderedFiles(written))

\* a finished document renders config.conf twice under Configuration Files
C15_Witness ==
    /\ pc = "exit0"
    /\ \E i, j \in 1..Len(written) :
          /\ i < j
          /\ written[i].kind = "fbody"
          /\ written[j].kind = "fbody"
          /\ written[i].cat = "Configuration Files"
          /\ written[j].cat = "Configuration Files"
          /\ written[i].path = f_config_conf
          /\ written[j].path = f_config_conf

====
